---- MODULE Spec2Model ----
(***************************************************************************)
(* A model of sharc/simulation.py (class Simulation): the per-snapshot     *)
(* engine that links UEs to base stations, selects K UEs per base station  *)
(* and forms beams, schedules resource blocks, and computes antenna gains  *)
(* and coupling loss.                                                      *)
(*                                                                         *)
(* Indices are 0-based as in the code: base stations 0..num_bs-1, UEs      *)
(* 0..num_ue-1.  A list (link[bs], an antenna's beams_list) is a TLA+      *)
(* sequence, so the code's list[i] is seq[i+1].                            *)
(*                                                                         *)
(* self.path_loss_imt and self.imt_bs_antenna_gain, the samples that       *)
(* calculate_coupling_loss keeps for the statistics, are written and never *)
(* read by the engine; they are not part of the state modelled here.       *)
(***************************************************************************)
EXTENDS Integers, Sequences, FiniteSets, TLC

\* ---------------------------------------------------------------- bounds
MaxBS == 3
MaxK == 2
MaxM == 2
MaxUE == 4
MaxSnapshots == 2
MaxSelects == 1

\* Parameter values the configurations are drawn from (bandwidth and
\* rb_bandwidth in one unit; guard_band_ratio in tenths).
BandwidthValues == {4}
RbBandwidthValues == {2}
GuardTenthsValues == {5}
\* Shadowing draws of the propagation model.
ShadowValues == {0, 1}

VARIABLES
    param_imt,            \* ue_k, ue_k_m, bandwidth, guard_band_ratio, rb_bandwidth
    topology,             \* num_base_stations
    pc,                   \* "constructed" | "initialized" | "ready" | "failed"
    link,                 \* self.link: bs -> list of ue
    bs_to_ue_beam_rbs,    \* self.bs_to_ue_beam_rbs: ue -> beam index, -1 unassigned
    num_rb_per_bs,
    num_rb_per_ue,
    bs,                   \* self.bs: [active, antenna]
    ue,                   \* self.ue: [active, antenna, bandwidth]
    system,               \* self.system: [active, antenna]
    snapshot,             \* number of the current snapshot
    last,                 \* the last call: [op, a, b]
    raised,               \* the exception the last call raised, or "none"
    ret,                  \* the value the last call returned (NoValue: none)
    selects,              \* select_ue calls in the current snapshot
    first_sel,            \* bs -> the set selected by the first select_ue since the last connect
    stage                 \* the connect/select calls of the current snapshot so far:
                          \* "new" (none), "connected" (one connect), "selected"
                          \* (connect, then select), "reselected" (select alone), "other"

vars == <<param_imt, topology, pc, link, bs_to_ue_beam_rbs, num_rb_per_bs,
          num_rb_per_ue, bs, ue, system,
          snapshot, last, raised, ret, selects, first_sel, stage>>

\* ---------------------------------------------------------------- helpers
Min(a, b) == IF a < b THEN a ELSE b

Range(s) == {s[i] : i \in DOMAIN s}

Empty == [i \in {} |-> 0]

NoCall == [op |-> "none", a |-> "none", b |-> "none"]

NoValue == [shape |-> <<>>, data |-> Empty]

\* The configurations: every K >= 1, M >= 1 and number of base stations
\* within the bounds.
Configs ==
    {c \in [num_base_stations : 1..MaxBS, ue_k : 1..MaxK, ue_k_m : 1..MaxM,
            bandwidth : BandwidthValues, guard_band_tenths : GuardTenthsValues,
            rb_bandwidth : RbBandwidthValues] :
        c.num_base_stations * c.ue_k * c.ue_k_m <= MaxUE}

num_bs == topology.num_base_stations

num_ue == num_bs * param_imt.ue_k * param_imt.ue_k_m

BSs == 0..(num_bs - 1)

UEs == 0..(num_ue - 1)

NoneSelected == [b \in BSs |-> [done |-> FALSE, set |-> {}]]

\* ------------------------------------------------------------ __init__
Init ==
    /\ \E c \in Configs :
        /\ param_imt = [ue_k |-> c.ue_k, ue_k_m |-> c.ue_k_m,
                        bandwidth |-> c.bandwidth,
                        guard_band_tenths |-> c.guard_band_tenths,
                        rb_bandwidth |-> c.rb_bandwidth]
        /\ topology = [num_base_stations |-> c.num_base_stations]
    /\ pc = "constructed"
    /\ link = Empty
    /\ bs_to_ue_beam_rbs = Empty
    /\ num_rb_per_bs = 0
    /\ num_rb_per_ue = 0
    /\ bs = [active |-> Empty, antenna |-> Empty]
    /\ ue = [active |-> Empty, antenna |-> Empty, bandwidth |-> Empty]
    /\ system = [active |-> Empty, antenna |-> Empty]
    /\ snapshot = 0
    /\ last = NoCall
    /\ raised = "none"
    /\ ret = NoValue
    /\ selects = 0
    /\ first_sel = Empty
    /\ stage = "new"

\* ------------------------------------------------------------ initialize
\* math.trunc((1 - guard_band_ratio) * bandwidth / rb_bandwidth), the ratio
\* in tenths; the operands are non-negative, so truncation is \div.
RbPerBs(p) == ((10 - p.guard_band_tenths) * p.bandwidth) \div (10 * p.rb_bandwidth)

RbPerUe(rb_per_bs, k) == rb_per_bs \div k

Initialize ==
    /\ pc = "constructed"
    /\ pc' = "initialized"
    /\ link' = [b \in BSs |-> <<>>]
    /\ bs_to_ue_beam_rbs' = [u \in UEs |-> -1]
    /\ num_rb_per_bs' = RbPerBs(param_imt)
    /\ num_rb_per_ue' = RbPerUe(RbPerBs(param_imt), param_imt.ue_k)
    /\ ret' = NoValue
    /\ last' = [NoCall EXCEPT !.op = "initialize"]
    /\ stage' = "new"
    /\ first_sel' = NoneSelected
    /\ UNCHANGED <<param_imt, topology, bs, ue, system, snapshot, raised, selects>>

\* ------------------------------------------------- the station sets
\* The station sets are built by the caller of the engine: every UE starts
\* inactive, every antenna has no beam, a base station is active or not.
\* The external system is one active station with one fixed beam.
SystemBeam == [to |-> [role |-> "none", idx |-> 0], snapshot |-> 0]

CreateStations ==
    /\ pc = "initialized"
    /\ pc' = "ready"
    /\ \E act \in [BSs -> BOOLEAN] :
        bs' = [active |-> act, antenna |-> [b \in BSs |-> <<>>]]
    /\ ue' = [active |-> [u \in UEs |-> FALSE],
              antenna |-> [u \in UEs |-> <<>>],
              bandwidth |-> [u \in UEs |-> 0]]
    /\ system' = [active |-> [s \in {0} |-> TRUE],
                  antenna |-> [s \in {0} |-> <<SystemBeam>>]]
    /\ snapshot' = 1
    /\ selects' = 0
    /\ ret' = NoValue
    /\ last' = [NoCall EXCEPT !.op = "create_stations"]
    /\ UNCHANGED <<param_imt, topology, link, bs_to_ue_beam_rbs, num_rb_per_bs,
                   num_rb_per_ue, raised,
                   first_sel, stage>>

\* The next snapshot: the caller redraws which base stations are active.
NewSnapshot ==
    /\ pc = "ready"
    /\ snapshot < MaxSnapshots
    /\ snapshot' = snapshot + 1
    /\ selects' = 0
    /\ stage' = "new"
    /\ \E act \in [BSs -> BOOLEAN] : bs' = [bs EXCEPT !.active = act]
    /\ ret' = NoValue
    /\ last' = [NoCall EXCEPT !.op = "new_snapshot"]
    /\ UNCHANGED <<param_imt, topology, pc, link, bs_to_ue_beam_rbs,
                   num_rb_per_bs, num_rb_per_ue, ue, system, raised, first_sel>>

\* ------------------------------------------------------ connect_ue_to_bs
bs_active == {b \in DOMAIN bs.active : bs.active[b]}

\* A slip in the block's offset: K instead of K*M.
UeListOffsetK(b, num_ue_per_bs) ==
    [i \in 1..num_ue_per_bs |-> b * param_imt.ue_k + i - 1]

\* [i for i in range(bs*num_ue_per_bs, bs*num_ue_per_bs + num_ue_per_bs)]
UeList(b, num_ue_per_bs) == [i \in 1..num_ue_per_bs |-> b * num_ue_per_bs + i - 1]

ConnectedLink(lk, active, num_ue_per_bs) ==
    [b \in DOMAIN lk |-> IF b \in active THEN UeList(b, num_ue_per_bs) ELSE lk[b]]

ConnectUeToBs ==
    /\ pc = "ready"
    /\ link' = ConnectedLink(link, bs_active, param_imt.ue_k * param_imt.ue_k_m)
    /\ ret' = NoValue
    /\ last' = [NoCall EXCEPT !.op = "connect_ue_to_bs"]
    /\ stage' = IF stage = "new" THEN "connected" ELSE "other"
    /\ first_sel' = NoneSelected
    /\ UNCHANGED <<param_imt, topology, pc, bs_to_ue_beam_rbs, num_rb_per_bs,
                   num_rb_per_ue, bs, ue,
                   system, snapshot, raised, selects>>

\* ------------------------------------------------------------- select_ue
\* random.shuffle(list): every ordering of the list is a possible outcome.
RECURSIVE Perms(_)
Perms(S) ==
    IF S = {} THEN {<<>>}
    ELSE UNION {{<<x>> \o p : p \in Perms(S \ {x})} : x \in S}

Shuffle(s) == Perms(Range(s))

\* An off-by-one slip: del list[K+1:].
TruncateOneMore(s, K) == SubSeq(s, 1, Min(K + 1, Len(s)))

\* del list[K:]
Truncate(s, K) == SubSeq(s, 1, Min(K, Len(s)))

\* self.ue.active[list] = np.ones(K, dtype=bool): numpy broadcasts the K
\* values onto the n indexed entries only when n = K or K = 1, and raises
\* ValueError otherwise.
ActivationFits(n, K) == n = K \/ K = 1

\* antenna.add_beam(phi, theta): the beam pointing from the station to
\* the station `role` number idx, tagged with the snapshot that made it.
Beam(role, idx) == [to |-> [role |-> role, idx |-> idx], snapshot |-> snapshot]

AddBeam(beams_list, beam) == Append(beams_list, beam)

\* len(self.bs.antenna[bs].beams_list) - 1
BeamIndex(beams_list) == Len(beams_list) - 1

\* The loop over the selected UEs of base station b: a beam on the base
\* station's antenna, a beam on the UE's antenna, the UE's beam index.
RECURSIVE CreateBeams(_, _, _)
CreateBeams(st, b, us) ==
    IF us = <<>> THEN st
    ELSE LET u == Head(us)
             bl == AddBeam(st.bs_antenna[b], Beam("IMT_UE", u))
         IN  CreateBeams([st EXCEPT !.bs_antenna[b] = bl,
                                   !.ue_antenna[u] = AddBeam(@, Beam("IMT_BS", b)),
                                   !.rbs[u] = BeamIndex(bl)],
                         b, Tail(us))

\* One pass of the loop body for base station b, the shuffle giving p.
SelectAt(st, b, p, K) ==
    LET lk == Truncate(p, K)
        s1 == [st EXCEPT !.link[b] = lk]
    IN  IF ~ActivationFits(Len(lk), K)
        THEN [s1 EXCEPT !.raised = "ValueError"]
        ELSE CreateBeams([s1 EXCEPT !.ue_active =
                                [u \in DOMAIN @ |-> @[u] \/ u \in Range(lk)],
                                    !.done = @ \cup {b}],
                         b, lk)

\* The loop over the active base stations from b on, in index order; an
\* exception ends it.
RECURSIVE SelectFrom(_, _, _)
SelectFrom(st, b, K) ==
    IF b >= num_bs THEN {st}
    ELSE IF ~bs.active[b] THEN SelectFrom(st, b + 1, K)
    ELSE UNION {LET s2 == SelectAt(st, b, p, K)
                IN  IF s2.raised # "none" THEN {s2} ELSE SelectFrom(s2, b + 1, K)
                : p \in Shuffle(st.link[b])}

SelectUe ==
    /\ pc = "ready"
    /\ selects < MaxSelects
    /\ \E out \in SelectFrom([link |-> link, ue_active |-> ue.active,
                              bs_antenna |-> bs.antenna, ue_antenna |-> ue.antenna,
                              rbs |-> bs_to_ue_beam_rbs, raised |-> "none",
                              done |-> {}],
                             0, param_imt.ue_k) :
        /\ link' = out.link
        /\ ue' = [ue EXCEPT !.active = out.ue_active, !.antenna = out.ue_antenna]
        /\ bs' = [bs EXCEPT !.antenna = out.bs_antenna]
        /\ bs_to_ue_beam_rbs' = out.rbs
        /\ raised' = out.raised
        /\ pc' = IF out.raised = "none" THEN "ready" ELSE "failed"
        /\ first_sel' = [b \in BSs |->
                            IF b \in out.done /\ ~first_sel[b].done
                            THEN [done |-> TRUE, set |-> Range(out.link[b])]
                            ELSE first_sel[b]]
    /\ selects' = selects + 1
    /\ ret' = NoValue
    /\ last' = [NoCall EXCEPT !.op = "select_ue"]
    /\ stage' = CASE stage = "connected" -> "selected"
                   [] stage = "new" -> "reselected"
                   [] OTHER -> "other"
    /\ UNCHANGED <<param_imt, topology, num_rb_per_bs, num_rb_per_ue,
                   system, snapshot>>

\* -------------------------------------------------------------- scheduler
ScheduledBandwidth(bw, lk, active, share) ==
    [u \in DOMAIN bw |->
        IF \E b \in active : u \in Range(lk[b]) THEN share ELSE bw[u]]

Scheduler ==
    /\ pc = "ready"
    /\ ue' = [ue EXCEPT !.bandwidth =
                ScheduledBandwidth(@, link, bs_active,
                                   num_rb_per_ue * param_imt.rb_bandwidth)]
    /\ ret' = NoValue
    /\ last' = [NoCall EXCEPT !.op = "scheduler"]
    /\ UNCHANGED <<param_imt, topology, pc, link, bs_to_ue_beam_rbs,
                   num_rb_per_bs, num_rb_per_ue, bs, system, snapshot, raised,
                   selects, first_sel, stage>>

\* -------------------------------------------------------- calculate_gains
StationActive(role) ==
    CASE role = "IMT_BS" -> bs.active
      [] role = "IMT_UE" -> ue.active
      [] OTHER -> system.active

StationAntenna(role) ==
    CASE role = "IMT_BS" -> bs.antenna
      [] role = "IMT_UE" -> ue.antenna
      [] OTHER -> system.antenna

Stations(role) == DOMAIN StationActive(role)

\* The beam index vector of the transmitting role.
BeamsIdx(role) ==
    CASE role = "IMT_BS" -> bs_to_ue_beam_rbs
      [] role = "IMT_UE" -> [i \in Stations("IMT_BS") |-> 0]
      [] OTHER -> [i \in Stations("IMT_UE") |-> 0]

\* The radiation pattern of a beam evaluated in the direction of a station.
PatternGain(beam, toward) ==
    IF beam.to = toward THEN 9 ELSE 1 + ((beam.to.idx + 2 * toward.idx) % 4)

\* antenna.calculate_gain for one direction: the gain of beam number `beam`
\* of the list; the unassigned index -1 silently falls back to a default
\* pattern, and an index beyond the list is an IndexError.
AntennaGain(beams_list, beam, toward) ==
    IF beam = -1 THEN [ok |-> TRUE, gain |-> 5]
    ELSE IF beam \in 0..(Len(beams_list) - 1)
         THEN [ok |-> TRUE, gain |-> PatternGain(beams_list[beam + 1], toward)]
         ELSE [ok |-> FALSE, gain |-> 0]

\* Whether the loop evaluates transmitter k toward receiver j:
\* k in np.where(station_a.active)[0], j in np.where(station_b.active)[0].
Evaluated(active_a, active_b, k, j) == active_a[k] /\ active_b[j]

\* gains = np.zeros(phi.shape), then one row per active transmitter, filled
\* at the active receivers with beams_idx[station_b_active].
Gains(a, b) ==
    LET active_a == StationActive(a)
        active_b == StationActive(b)
        antenna == StationAntenna(a)
        beams_idx == BeamsIdx(a)
        cell == [p \in (DOMAIN active_a) \X (DOMAIN active_b) |->
                    IF ~Evaluated(active_a, active_b, p[1], p[2])
                    THEN [ok |-> TRUE, gain |-> 0]
                    ELSE IF p[2] \notin DOMAIN beams_idx
                    THEN [ok |-> FALSE, gain |-> 0]
                    ELSE AntennaGain(antenna[p[1]], beams_idx[p[2]],
                                     [role |-> b, idx |-> p[2]])]
    IN  [raised |-> IF \E p \in DOMAIN cell : ~cell[p].ok
                    THEN "IndexError" ELSE "none",
         gains |-> [p \in DOMAIN cell |-> cell[p].gain]]

GainPairs == {<<"IMT_BS", "IMT_UE">>, <<"IMT_UE", "IMT_BS">>}

Matrix(m, na, nb) == [shape |-> <<na, nb>>, data |-> m]

CalculateGains(a, b) ==
    /\ pc = "ready"
    /\ LET g == Gains(a, b)
       IN  /\ raised' = g.raised
           /\ pc' = IF g.raised = "none" THEN "ready" ELSE "failed"
           /\ ret' = IF g.raised = "none"
                     THEN Matrix(g.gains, Cardinality(Stations(a)),
                                 Cardinality(Stations(b)))
                     ELSE NoValue
    /\ last' = [op |-> "calculate_gains", a |-> a, b |-> b]
    /\ UNCHANGED <<param_imt, topology, link, bs_to_ue_beam_rbs, num_rb_per_bs,
                   num_rb_per_ue, bs, ue,
                   system, snapshot, selects, first_sel, stage>>

\* ------------------------------------------------ calculate_coupling_loss
\* propagation.get_loss: the path loss of every pair, active or not.
GetLoss(a, shadow, k, j) ==
    (IF a = "FSS_SS" THEN 180 ELSE 100) + 10 * shadow + 3 * k + j

PathLoss(a, b, shadow) ==
    [p \in Stations(a) \X Stations(b) |-> GetLoss(a, shadow, p[1], p[2])]

\* np.transpose of a num_b x num_a matrix.
Transpose(m) == [p \in {<<q[2], q[1]>> : q \in DOMAIN m} |-> m[<<p[2], p[1]>>]]

\* A sign slip: path_loss - gain_a + gain_b.
CouplingLossSignSlip(path_loss, gain_a, gain_b) ==
    [p \in DOMAIN path_loss |-> path_loss[p] - gain_a[p] + gain_b[p]]

\* path_loss - gain_a - gain_b
CouplingLoss(path_loss, gain_a, gain_b) ==
    [p \in DOMAIN path_loss |-> path_loss[p] - gain_a[p] - gain_b[p]]

\* np.squeeze: the axes of length 1 are dropped; entry (k, j) is then found
\* at the index that keeps only the coordinates of the longer axes.
SqueezedIndex(na, nb, k, j) ==
    (IF na = 1 THEN <<>> ELSE <<k>>) \o (IF nb = 1 THEN <<>> ELSE <<j>>)

Squeeze(m, na, nb) ==
    [shape |-> SelectSeq(<<na, nb>>, LAMBDA n : n # 1),
     data |-> [t \in {SqueezedIndex(na, nb, p[1], p[2]) : p \in DOMAIN m} |->
                 m[<<IF na = 1 THEN 0 ELSE t[1],
                     IF nb = 1 THEN 0 ELSE t[Len(t)]>>]]]

LossPairs == {<<"IMT_BS", "IMT_UE">>, <<"FSS_SS", "IMT_UE">>}

CalculateCouplingLoss(a, b) ==
    /\ pc = "ready"
    /\ \E shadow \in ShadowValues :
        LET path_loss == PathLoss(a, b, shadow)
            ga == Gains(a, b)
            gb == Gains(b, a)
            err == IF ga.raised # "none" THEN ga.raised ELSE gb.raised
        IN  /\ raised' = err
            /\ pc' = IF err = "none" THEN "ready" ELSE "failed"
            /\ ret' = IF err = "none"
                      THEN Squeeze(CouplingLoss(path_loss, ga.gains,
                                                Transpose(gb.gains)),
                                   Cardinality(Stations(a)),
                                   Cardinality(Stations(b)))
                      ELSE NoValue
    /\ last' = [op |-> "calculate_coupling_loss", a |-> a, b |-> b]
    /\ UNCHANGED <<param_imt, topology, link, bs_to_ue_beam_rbs, num_rb_per_bs,
                   num_rb_per_ue, bs, ue, system, snapshot, selects, first_sel,
                   stage>>

\* ------------------------------------------------------------ the claims
\* The block of UE indices of base station b: b*K*M .. (b+1)*K*M - 1.
BlockOf(b) ==
    {u \in UEs : u \div (param_imt.ue_k * param_imt.ue_k_m) = b}

\* How many times UE u occurs in the link lists.
Occurrences(u) ==
    Cardinality({<<b, i>> \in BSs \X (1..num_ue) :
                    i \in DOMAIN link[b] /\ link[b][i] = u})

Queried == last.op \in {"calculate_gains", "calculate_coupling_loss"}

\* C1: after the select_ue of a snapshot (connect_ue_to_bs, then select_ue),
\* every active base station has as many beams as UEs in its link list, and
\* the beam index of every UE of the list is an index into that base
\* station's beam list.
C1_BeamInvariant ==
    (last.op = "select_ue" /\ raised = "none" /\ stage = "selected") =>
        \A b \in bs_active :
            /\ Len(bs.antenna[b]) = Len(link[b])
            /\ \A u \in Range(link[b]) :
                  bs_to_ue_beam_rbs[u] \in 0..(Len(bs.antenna[b]) - 1)

\* C2: select_ue ends without error; the link list of every active base
\* station then has min(K, n) entries, n its length before the call, all of
\* them active; and if no UE was active before, no UE outside the link lists
\* of the active base stations is active after.
C2_SelectionInvariant ==
    [][last'.op = "select_ue" =>
          /\ raised' = "none"
          /\ \A b \in bs_active :
                /\ Len(link'[b]) = Min(param_imt.ue_k, Len(link[b]))
                /\ \A u \in Range(link'[b]) : ue'.active[u]
          /\ (\A u \in UEs : ~ue.active[u]) =>
                \A u \in UEs :
                    ue'.active[u] => \E b \in bs_active : u \in Range(link'[b])
      ]_vars

\* The state right after initialize followed by connect_ue_to_bs.
AfterFirstConnect ==
    pc = "ready" /\ snapshot = 1 /\ stage = "connected"
    /\ last.op = "connect_ue_to_bs"

\* C3 as stated: after initialize and connect_ue_to_bs, whatever the active
\* flags, every UE index occurs exactly once in the link lists.
C3_EveryUeOnce ==
    AfterFirstConnect => \A u \in UEs : Occurrences(u) = 1

\* C3 as amended: after initialize and connect_ue_to_bs, the link list of an
\* active base station is its block of K*M indices in ascending order, the
\* list of an inactive one is empty; so no UE index occurs twice, and the
\* indices left out are those of the blocks of the inactive base stations.
C3_ActiveBlocksOnce ==
    AfterFirstConnect =>
        /\ \A b \in BSs :
              /\ Range(link[b]) = (IF bs.active[b] THEN BlockOf(b) ELSE {})
              /\ \A i, j \in DOMAIN link[b] : i < j => link[b][i] < link[b][j]
        /\ \A u \in UEs :
              Occurrences(u) =
                (IF \E b \in bs_active : u \in BlockOf(b) THEN 1 ELSE 0)

\* C3's case: two base stations or more, one active and one not, M = 2.
C3_Witness ==
    /\ AfterFirstConnect
    /\ param_imt.ue_k_m = 2
    /\ \E b, c \in BSs : bs.active[b] /\ ~bs.active[c]
    /\ \E u \in UEs : Occurrences(u) = 0

\* C4: every active UE is in the link list of exactly one base station, and
\* after select_ue the list of every active base station has at most K
\* entries.
C4_ActiveUeInOneList ==
    pc = "ready" =>
        /\ \A u \in UEs :
              ue.active[u] =>
                  Cardinality({b \in BSs : u \in Range(link[b])}) = 1
        /\ last.op = "select_ue" =>
              \A b \in bs_active : Len(link[b]) <= param_imt.ue_k

\* The pairs (transmitting role, receiving role) the last query evaluated.
QueriedPairs ==
    IF last.op = "calculate_gains" THEN {<<last.a, last.b>>}
    ELSE IF last.op = "calculate_coupling_loss"
    THEN {<<last.a, last.b>>, <<last.b, last.a>>}
    ELSE {}

\* The beams the gain loop of roles (a, b) evaluates.
EvaluatedBeams(a, b) ==
    {StationAntenna(a)[k][BeamsIdx(a)[j] + 1] :
        <<k, j>> \in {p \in Stations(a) \X Stations(b) :
            /\ StationActive(a)[p[1]] /\ StationActive(b)[p[2]]
            /\ BeamsIdx(a)[p[2]] + 1 \in DOMAIN StationAntenna(a)[p[1]]}}

\* C5: at a gain query of a snapshot that ran connect_ue_to_bs and then
\* select_ue on some active base station, no base station or UE beam made
\* in an earlier snapshot is evaluated.
C5_NoStaleBeams ==
    (Queried /\ stage = "selected" /\ \E b \in bs_active : link[b] # <<>>) =>
        \A p \in QueriedPairs :
            p[1] # "FSS_SS" =>
                \A beam \in EvaluatedBeams(p[1], p[2]) : beam.snapshot = snapshot

C7_ZeroShareRejected ==
    ~(/\ last.op = "scheduler"
      /\ param_imt.ue_k > num_rb_per_bs
      /\ \E b \in bs_active : \E u \in Range(link[b]) : ue.bandwidth[u] = 0)

\* The gain of transmitter k of role tx toward receiver j of role rx: the
\* pattern of k's beam for j (the beam index of UE j when k is a base
\* station, beam 0 otherwise) when both are active, and 0 otherwise.
ReferenceGain(tx, rx, k, j) ==
    IF StationActive(tx)[k] /\ StationActive(rx)[j]
    THEN LET n == IF tx = "IMT_BS" THEN bs_to_ue_beam_rbs[j] ELSE 0
         IN  PatternGain(StationAntenna(tx)[k][n + 1], [role |-> rx, idx |-> j])
    ELSE 0

\* C8: the matrix calculate_coupling_loss(A, B) returns holds, for every
\* station k of A and j of B, pathLoss(k, j) - gainAB[k][j] - gainBA[j][k].
C8_CouplingLoss ==
    (last.op = "calculate_coupling_loss" /\ raised = "none") =>
        \E shadow \in ShadowValues :
            \A k \in Stations(last.a), j \in Stations(last.b) :
                ret.data[SqueezedIndex(Cardinality(Stations(last.a)),
                                       Cardinality(Stations(last.b)), k, j)]
                = GetLoss(last.a, shadow, k, j)
                  - ReferenceGain(last.a, last.b, k, j)
                  - ReferenceGain(last.b, last.a, j, k)

\* C8's case: a loss matrix from base stations to UEs, two base stations or
\* more, one active with a selected UE and one inactive.
C8_Witness ==
    /\ last = [op |-> "calculate_coupling_loss", a |-> "IMT_BS", b |-> "IMT_UE"]
    /\ raised = "none"
    /\ \E b, c \in BSs : bs.active[b] /\ ~bs.active[c]
    /\ \E u \in UEs : ue.active[u]
    /\ \E u \in UEs : ~ue.active[u]
    /\ Len(ret.shape) = 2

\* C9: a query on a station set with no active station ends without error
\* and returns a matrix of zeros.
C9_ZeroActiveAllZero ==
    (/\ Queried
     /\ \/ \A k \in Stations(last.a) : ~StationActive(last.a)[k]
        \/ \A j \in Stations(last.b) : ~StationActive(last.b)[j])
    => (raised = "none" /\ \A t \in DOMAIN ret.data : ret.data[t] = 0)

\* C10: select_ue only drops UEs from a link list; once a base station has
\* been selected from since the last connect_ue_to_bs, a later select_ue
\* leaves it the same set of K UEs, and the UEs of its block outside that set
\* are neither activated nor given a beam index again.
C10_SelectOnlyDrops ==
    [][last'.op = "select_ue" =>
          \A b \in BSs :
              /\ Range(link'[b]) \subseteq Range(link[b])
              /\ first_sel[b].done =>
                    /\ Range(link'[b]) = first_sel[b].set
                    /\ first_sel[b].set # {} =>
                          Cardinality(Range(link'[b])) = param_imt.ue_k
                    /\ \A u \in BlockOf(b) \ first_sel[b].set :
                          /\ ue'.active[u] = ue.active[u]
                          /\ bs_to_ue_beam_rbs'[u] = bs_to_ue_beam_rbs[u]
      ]_vars

\* C10's case: the second select_ue on a base station, no connect_ue_to_bs
\* since the first, K = 2 of K*M = 4 UEs kept, in another order.
C10_Witness ==
    /\ last.op = "select_ue" /\ raised = "none"
    /\ snapshot = 2 /\ stage = "reselected"
    /\ param_imt.ue_k = 2 /\ param_imt.ue_k_m = 2
    /\ \E b \in bs_active :
          /\ first_sel[b].done /\ first_sel[b].set = Range(link[b])
          /\ Len(bs.antenna[b]) = 4
          /\ {bs.antenna[b][1].to.idx, bs.antenna[b][2].to.idx} = Range(link[b])
          /\ bs.antenna[b][1].to.idx = bs.antenna[b][4].to.idx

Next ==
    \/ Initialize
    \/ CreateStations
    \/ NewSnapshot
    \/ ConnectUeToBs
    \/ SelectUe
    \/ Scheduler
    \/ \E p \in GainPairs : CalculateGains(p[1], p[2])
    \/ \E p \in LossPairs : CalculateCouplingLoss(p[1], p[2])

Spec == Init /\ [][Next]_vars

\* ------------------------------------------ the queries on any station sets
\* calculate_gains and calculate_coupling_loss take the station sets as
\* arguments: here the caller hands over station sets whose active flags are
\* arbitrary, straight after initialize.
CreateAnyStations ==
    /\ pc = "initialized"
    /\ pc' = "ready"
    /\ \E act \in [BSs -> BOOLEAN] :
        bs' = [active |-> act, antenna |-> [b \in BSs |-> <<>>]]
    /\ \E act \in [UEs -> BOOLEAN] :
        ue' = [active |-> act,
               antenna |-> [u \in UEs |-> <<>>],
               bandwidth |-> [u \in UEs |-> 0]]
    /\ system' = [active |-> [s \in {0} |-> TRUE],
                  antenna |-> [s \in {0} |-> <<SystemBeam>>]]
    /\ snapshot' = 1
    /\ selects' = 0
    /\ ret' = NoValue
    /\ last' = [NoCall EXCEPT !.op = "create_stations"]
    /\ UNCHANGED <<param_imt, topology, link, bs_to_ue_beam_rbs, num_rb_per_bs,
                   num_rb_per_ue, raised, first_sel, stage>>

NextQuery ==
    \/ Initialize
    \/ CreateAnyStations
    \/ \E p \in GainPairs : CalculateGains(p[1], p[2])
    \/ \E p \in LossPairs : CalculateCouplingLoss(p[1], p[2])

SpecQuery == Init /\ [][NextQuery]_vars
====
